---- MODULE Spec2Model ----
(***************************************************************************)
(* Model of Code/fjcJudgeMetaDataExtractor.py: the loop of main() that     *)
(* turns the rows of the FJC commission table into the judge metadata      *)
(* rows, together with get_year() and the court_map table.                 *)
(*                                                                         *)
(* Python strings are TLA+ strings (TLC evaluates Len, Head, Tail, SubSeq  *)
(* and \o on them).  A Python value whose type varies at run time (the     *)
(* Party and the years: str, int or None) is a tagged record, and == on    *)
(* such values is PyEq.  A dict is a function on its keys, so a missing    *)
(* key is a key outside its DOMAIN.                                        *)
(***************************************************************************)
EXTENDS Integers, Sequences, FiniteSets, TLC

VARIABLES header, this_year, pc, nread, row, commission, previous_commission, out

vars == <<header, this_year, pc, nread, row, commission, previous_commission, out>>

\* Rows read by one run of the model.
MaxRows == 2

---------------------------------------------------------------------------
(* Python values *)

None == [t |-> "NoneType"]
PyInt(n) == [t |-> "int", v |-> n]
PyStr(s) == [t |-> "str", v |-> s]

\* a == b of Python: values of different types are never equal.
PyEq(a, b) == a.t = b.t /\ (a.t = "NoneType" \/ a.v = b.v)

\* bool(a) of Python, for the operand of `or`.
Truthy(a) ==
    CASE a.t = "NoneType" -> FALSE
      [] a.t = "int" -> a.v # 0
      [] OTHER -> Len(a.v) > 0

\* a or b
PyOr(a, b) == IF Truthy(a) THEN a ELSE b

\* d.get(k, default)
DictGet(d, k, default) == IF k \in DOMAIN d THEN d[k] ELSE default

\* s.startswith(p), the regular expression ^p on a string without newlines.
StartsWith(s, p) == Len(s) >= Len(p) /\ SubSeq(s, 1, Len(p)) = p

---------------------------------------------------------------------------
(* court_map *)

court_map ==
    [c \in {"U.S. Court of Appeals for the District of Columbia Circuit",
            "U.S. Court of Appeals for the Eighth Circuit",
            "U.S. Court of Appeals for the Eleventh Circuit",
            "U.S. Court of Appeals for the Federal Circuit",
            "U.S. Court of Appeals for the Fifth Circuit",
            "U.S. Court of Appeals for the First Circuit",
            "U.S. Court of Appeals for the Fourth Circuit",
            "U.S. Court of Appeals for the Ninth Circuit",
            "U.S. Court of Appeals for the Second Circuit",
            "U.S. Court of Appeals for the Seventh Circuit",
            "U.S. Court of Appeals for the Sixth Circuit",
            "U.S. Court of Appeals for the Tenth Circuit",
            "U.S. Court of Appeals for the Third Circuit",
            "U.S. Court of International Trade"} |->
        CASE c = "U.S. Court of Appeals for the District of Columbia Circuit" -> "DC"
          [] c = "U.S. Court of Appeals for the Eighth Circuit" -> "8"
          [] c = "U.S. Court of Appeals for the Eleventh Circuit" -> "11"
          [] c = "U.S. Court of Appeals for the Federal Circuit" -> "FC"
          [] c = "U.S. Court of Appeals for the Fifth Circuit" -> "5"
          [] c = "U.S. Court of Appeals for the First Circuit" -> "1"
          [] c = "U.S. Court of Appeals for the Fourth Circuit" -> "4"
          [] c = "U.S. Court of Appeals for the Ninth Circuit" -> "9"
          [] c = "U.S. Court of Appeals for the Second Circuit" -> "2"
          [] c = "U.S. Court of Appeals for the Seventh Circuit" -> "7"
          [] c = "U.S. Court of Appeals for the Sixth Circuit" -> "6"
          [] c = "U.S. Court of Appeals for the Tenth Circuit" -> "10"
          [] c = "U.S. Court of Appeals for the Third Circuit" -> "3"
          [] OTHER -> "CIT"]

---------------------------------------------------------------------------
(* get_year *)

Digits == {"0", "1", "2", "3", "4", "5", "6", "7", "8", "9"}

DigitValue(c) ==
    CASE c = "0" -> 0 [] c = "1" -> 1 [] c = "2" -> 2 [] c = "3" -> 3
      [] c = "4" -> 4 [] c = "5" -> 5 [] c = "6" -> 6 [] c = "7" -> 7
      [] c = "8" -> 8 [] OTHER -> 9

AllDigits(s) == \A i \in 1..Len(s) : SubSeq(s, i, i) \in Digits

RECURSIVE ToInt(_)
ToInt(s) ==
    IF Len(s) = 0 THEN 0
    ELSE 10 * ToInt(SubSeq(s, 1, Len(s) - 1)) + DigitValue(SubSeq(s, Len(s), Len(s)))

\* Positions of "-" in s.
Dashes(s) == {i \in 1..Len(s) : SubSeq(s, i, i) = "-"}

\* The directive %m: 1[0-2]|0[1-9]|[1-9]
IsMonthText(m) ==
    /\ Len(m) \in {1, 2}
    /\ AllDigits(m)
    /\ ToInt(m) \in 1..12

\* The directive %d: 3[01]|[12]\d|0[1-9]|[1-9]| [1-9]
IsDayText(d) ==
    \/ /\ Len(d) \in {1, 2}
       /\ AllDigits(d)
       /\ ToInt(d) \in 1..31
    \/ /\ Len(d) = 2
       /\ SubSeq(d, 1, 1) = " "
       /\ SubSeq(d, 2, 2) \in Digits \ {"0"}

DayValue(d) == IF SubSeq(d, 1, 1) = " " THEN ToInt(SubSeq(d, 2, 2)) ELSE ToInt(d)

IsLeap(y) == y % 4 = 0 /\ (y % 100 # 0 \/ y % 400 = 0)

DaysInMonth(y, m) ==
    IF m = 2 THEN (IF IsLeap(y) THEN 29 ELSE 28)
    ELSE IF m \in {4, 6, 9, 11} THEN 30 ELSE 31

\* datetime.strptime(text, "%Y-%m-%d"): the date as <<year, month, day>>, or
\* <<>> where strptime raises ValueError (no match, unconverted data, or a
\* date that does not exist).
strptime(text) ==
    IF /\ Len(text) >= 8
       /\ AllDigits(SubSeq(text, 1, 4))
       /\ SubSeq(text, 5, 5) = "-"
       /\ Dashes(text) \cap (7..8) # {}
    THEN LET second == CHOOSE i \in Dashes(text) \cap (7..8) :
                           \A j \in Dashes(text) \cap (7..8) : i <= j
             y == SubSeq(text, 1, 4)
             m == SubSeq(text, 6, second - 1)
             d == SubSeq(text, second + 1, Len(text))
         IN  IF /\ IsMonthText(m)
                /\ IsDayText(d)
                /\ ToInt(y) >= 1
                /\ DayValue(d) <= DaysInMonth(ToInt(y), ToInt(m))
             THEN <<ToInt(y), ToInt(m), DayValue(d)>>
             ELSE <<>>
    ELSE <<>>

\* The except branch: datetime has no attribute stpftime, so the call raises
\* AttributeError whatever the text is, and the inner except sets d = None.
stpftime_fallback(text) == <<>>

\* get_year with a fallback that works: the first four characters as the year.
get_year_with_fallback(text) ==
    LET d == IF strptime(text) # <<>> THEN strptime(text)
             ELSE IF Len(text) >= 4 THEN strptime(SubSeq(text, 1, 4) \o "-01-01")
             ELSE <<>>
    IN  IF d # <<>> THEN PyInt(d[1]) ELSE None

get_year(text) ==
    LET d == IF strptime(text) # <<>> THEN strptime(text) ELSE stpftime_fallback(text)
    IN  IF d # <<>> THEN PyInt(d[1]) ELSE None

---------------------------------------------------------------------------
(* main: the body of the loop over the rows *)

\* The columns main() reads from a row.
Columns ==
    {"Judge Name", "Seat ID", "Court Name", "Party of Appointing President",
     "Commission Date", "Recess Appointment Date", "Termination Date"}

\* The fieldnames of the DictWriter, with extrasaction="ignore".
fieldnames == {"Judge", "Circuit", "Party", "StartYear", "EndYear"}

\* str.replace(",", "<"): every comma of the name, nothing else.
RECURSIVE replace_comma(_)
replace_comma(s) ==
    IF Len(s) = 0 THEN ""
    ELSE (IF Head(s) = "," THEN "<" ELSE Head(s)) \o replace_comma(Tail(s))

\* re.search('^None', p) or len(p) == 0
party_unknown(p) == StartsWith(p, "None") \/ Len(p) = 0

\* The Party text chosen by the if of lines 90-97: the previous commission's
\* Party when the party is unknown and the judge is the previous one, the
\* row's text otherwise.
party_text(prev, judge, p) ==
    IF party_unknown(p) /\ prev["Judge"] = judge
    THEN prev["Party"]
    ELSE PyStr(p)

\* party_code with the labels searched for in the text instead of compared
\* with it.
party_code_search(party) ==
    LET ends(l) == /\ party.t = "str"
                   /\ Len(party.v) >= Len(l)
                   /\ SubSeq(party.v, Len(party.v) - Len(l) + 1, Len(party.v)) = l
    IN  IF ends("Democratic") THEN PyInt(1)
        ELSE IF ends("Republican") THEN PyInt(0)
        ELSE None

\* 1 for Democratic, 0 for Republican, None otherwise.
party_code(party) ==
    IF PyEq(party, PyStr("Democratic")) THEN PyInt(1)
    ELSE IF PyEq(party, PyStr("Republican")) THEN PyInt(0)
    ELSE None

\* The Commission Date, or the Recess Appointment Date when it is empty.
start_date_text(r) ==
    IF Len(DictGet(r, "Commission Date", "")) = 0
    THEN DictGet(r, "Recess Appointment Date", "")
    ELSE DictGet(r, "Commission Date", "")

\* raises with every column read by row[...].
raises_every_column(prev, r) ==
    \/ DOMAIN r # {"Judge Name", "Seat ID", "Court Name", "Party of Appointing President",
                   "Commission Date", "Recess Appointment Date", "Termination Date"}
    \/ /\ (StartsWith(r["Party of Appointing President"], "None")
             \/ Len(r["Party of Appointing President"]) = 0)
       /\ prev["Judge"] = replace_comma(r["Judge Name"])
       /\ "Party" \notin DOMAIN prev

\* The body raises KeyError: a row[...] on a column the input does not have,
\* or previous_commission['Party'] on a dict without that key.
raises(prev, r) ==
    \/ "Judge Name" \notin DOMAIN r
    \/ "Seat ID" \notin DOMAIN r
    \/ "Court Name" \notin DOMAIN r
    \/ "Party of Appointing President" \notin DOMAIN r
    \/ /\ party_unknown(r["Party of Appointing President"])
       /\ prev["Judge"] = replace_comma(r["Judge Name"])
       /\ "Party" \notin DOMAIN prev
    \/ /\ Len(start_date_text(r)) > 0
       /\ "Termination Date" \notin DOMAIN r

\* The commission dict as it is after line 106.
base_commission(prev, r) ==
    [Judge |-> replace_comma(r["Judge Name"]),
     SeatID |-> r["Seat ID"],
     Circuit |-> DictGet(court_map, r["Court Name"], ""),
     Party |-> party_code(party_text(prev, replace_comma(r["Judge Name"]),
                                     r["Party of Appointing President"]))]

\* dated_commission without the current year as the default of EndYear.
dated_commission_no_default(prev, r, year) ==
    IF Len(start_date_text(r)) > 0
    THEN base_commission(prev, r) @@
         [StartYear |-> get_year(start_date_text(r)),
          EndYear |-> get_year(r["Termination Date"])]
    ELSE base_commission(prev, r)

\* The commission dict as it is after line 115.
dated_commission(prev, r, year) ==
    IF Len(start_date_text(r)) > 0
    THEN base_commission(prev, r) @@
         [StartYear |-> get_year(start_date_text(r)),
          EndYear |-> PyOr(get_year(r["Termination Date"]), PyInt(year))]
    ELSE base_commission(prev, r)

\* The commission is written: it has a start date and a circuit.
is_written(c) == "StartYear" \in DOMAIN c /\ Len(c.Circuit) > 0

PorfilioYear == 1996
KingYear == 1988

\* alt_commission copied after the StartYear of the commission is set.
alt_commission_late_copy(c) ==
    IF c.Judge = "Porfilio< John Carbone"
    THEN [c EXCEPT !.Judge = "Moore< John", !.EndYear = PyInt(PorfilioYear),
                   !.StartYear = PyInt(PorfilioYear)]
    ELSE IF c.Judge = "King< Carolyn Dineen"
    THEN [c EXCEPT !.Judge = "Randall< Carolyn", !.EndYear = PyInt(KingYear),
                   !.StartYear = PyInt(KingYear)]
    ELSE IF StartsWith(c.Judge, "Van ")
    THEN [c EXCEPT !.Judge = SubSeq(c.Judge, 5, Len(c.Judge))]
    ELSE IF StartsWith(c.Judge, "O'")
    THEN [c EXCEPT !.Judge = SubSeq(c.Judge, 3, Len(c.Judge))]
    ELSE <<>>

\* alt_commission with the prefix Van without its space: ^(Van|O')
alt_commission_loose_prefix(c) ==
    IF c.Judge = "Porfilio< John Carbone"
    THEN [c EXCEPT !.Judge = "Moore< John", !.EndYear = PyInt(PorfilioYear)]
    ELSE IF c.Judge = "King< Carolyn Dineen"
    THEN [c EXCEPT !.Judge = "Randall< Carolyn", !.EndYear = PyInt(KingYear)]
    ELSE IF StartsWith(c.Judge, "Van")
    THEN [c EXCEPT !.Judge = SubSeq(c.Judge, 4, Len(c.Judge))]
    ELSE IF StartsWith(c.Judge, "O'")
    THEN [c EXCEPT !.Judge = SubSeq(c.Judge, 3, Len(c.Judge))]
    ELSE <<>>

\* alt_commission of lines 118-134, <<>> for None.
alt_commission(c) ==
    IF c.Judge = "Porfilio< John Carbone"
    THEN [c EXCEPT !.Judge = "Moore< John", !.EndYear = PyInt(PorfilioYear)]
    ELSE IF c.Judge = "King< Carolyn Dineen"
    THEN [c EXCEPT !.Judge = "Randall< Carolyn", !.EndYear = PyInt(KingYear)]
    ELSE IF StartsWith(c.Judge, "Van ")
    THEN [c EXCEPT !.Judge = SubSeq(c.Judge, 5, Len(c.Judge))]
    ELSE IF StartsWith(c.Judge, "O'")
    THEN [c EXCEPT !.Judge = SubSeq(c.Judge, 3, Len(c.Judge))]
    ELSE <<>>

\* The commission dict at the end of the body, after the exceptions.
final_commission(c) ==
    IF ~is_written(c) THEN c
    ELSE IF c.Judge = "Porfilio< John Carbone"
    THEN [c EXCEPT !.StartYear = PyInt(PorfilioYear)]
    ELSE IF c.Judge = "King< Carolyn Dineen"
    THEN [c EXCEPT !.StartYear = PyInt(KingYear)]
    ELSE c

\* out_csv.writerow(d): the fieldnames of d, the other keys ignored.
writerow(d) == [f \in fieldnames |-> d[f]]

\* written_rows with the alias written before the commission.
written_rows_alias_first(c) ==
    IF ~is_written(c) THEN <<>>
    ELSE IF alt_commission(c) = <<>>
    THEN <<writerow(final_commission(c))>>
    ELSE <<writerow(alt_commission(c)), writerow(final_commission(c))>>

\* The rows the body writes for the commission c of line 115.
written_rows(c) ==
    IF ~is_written(c) THEN <<>>
    ELSE IF alt_commission(c) = <<>>
    THEN <<writerow(final_commission(c))>>
    ELSE <<writerow(final_commission(c)), writerow(alt_commission(c))>>

\* previous_commission set inside the if, for the commissions written only.
next_previous_if_written(c) == IF is_written(c) THEN c ELSE previous_commission

\* previous_commission after the body.
next_previous(c) == c

---------------------------------------------------------------------------
(* The run *)

\* One pass of the loop on the row r of the input.
LoopBody(r) ==
    /\ pc = "loop"
    /\ nread < MaxRows
    /\ DOMAIN r = header
    /\ nread' = nread + 1
    /\ row' = r
    /\ UNCHANGED <<header, this_year>>
    /\ IF raises(previous_commission, r)
       THEN /\ pc' = "failed"
            /\ UNCHANGED <<commission, previous_commission, out>>
       ELSE LET c == dated_commission(previous_commission, r, this_year)
            IN  /\ pc' = "loop"
                /\ out' = out \o written_rows(c)
                /\ commission' = final_commission(c)
                /\ previous_commission' = next_previous(final_commission(c))

\* The reader is exhausted: main returns.
Finish ==
    /\ pc = "loop"
    /\ pc' = "done"
    /\ UNCHANGED <<header, this_year, nread, row, commission, previous_commission, out>>

\* The state before the first row, for inputs with one of the headers hs, run
\* in one of the years ys.
InitWith(hs, ys) ==
    /\ header \in hs
    /\ this_year \in ys
    /\ pc = "loop"
    /\ nread = 0
    /\ row = <<>>
    /\ commission = <<>>
    /\ previous_commission = [Judge |-> ""]
    /\ out = <<>>

\* A row of the input with the columns cols.
InputRow(cols, j, s, c, p, cd, rd, td) ==
    [k \in cols |->
        CASE k = "Judge Name" -> j
          [] k = "Seat ID" -> s
          [] k = "Court Name" -> c
          [] k = "Party of Appointing President" -> p
          [] k = "Commission Date" -> cd
          [] k = "Recess Appointment Date" -> rd
          [] OTHER -> td]

Years == {2025, 2026}

Second == "U.S. Court of Appeals for the Second Circuit"
District == "U.S. District Court"

---------------------------------------------------------------------------
(* Spec: rows of three judges, with and without a court, a party and dates *)

JudgeNames == {"", "Smith, Jane", "O'Hara, Al"}
CourtNames == {Second, District}
Parties == {"", "Democratic", "Republican"}
CommissionDates == {"", "1995-03-01"}
RecessDates == {"", "1994-12-31"}

Init == InitWith({Columns}, {2026})

\* The same, run in one of two years.
InitYears == InitWith({Columns}, Years)

Next ==
    \/ \E j \in JudgeNames, c \in CourtNames, p \in Parties,
          cd \in CommissionDates, rd \in RecessDates :
           LoopBody(InputRow(header, j, "s1", c, p, cd, rd, ""))
    \/ Finish

Spec == Init /\ [][Next]_vars

---------------------------------------------------------------------------
(* Properties of a pass of the loop *)

\* The step is a pass of the loop that ran to its end.
Pass == pc = "loop" /\ pc' = "loop" /\ nread' = nread + 1

\* The rows the step wrote.
appended == SubSeq(out', Len(out) + 1, Len(out'))

\* The judge identifier of the row just read.
row_judge == replace_comma(row["Judge Name"])

\* A pass has run to its end and the loop waits for the next row.
Processed == pc = "loop" /\ nread >= 1

\* C1: a row with an unknown party (empty or None...) whose judge is the judge
\* of the row before it has the resolved Party of that row: 1 after 1, 0 after 0.
C1_BackfillCopiesParty ==
    [][(/\ Pass
        /\ nread >= 1
        /\ party_unknown(row'["Party of Appointing President"])
        /\ replace_comma(row'["Judge Name"]) = previous_commission.Judge)
       => PyEq(commission'.Party, previous_commission.Party)]_vars

\* C2: after every pass that ran to its end, previous_commission has the judge
\* identifier of that row, before any alias, and its resolved Party, whether
\* the row was written or dropped for its court or for its missing dates.
C2_PreviousIsLastRow ==
    Processed =>
        /\ previous_commission.Judge = row_judge
        /\ "Party" \in DOMAIN previous_commission
        /\ PyEq(previous_commission.Party, commission.Party)
        /\ row["Party of Appointing President"] = "Democratic"
               => PyEq(previous_commission.Party, PyInt(1))
        /\ row["Party of Appointing President"] = "Republican"
               => PyEq(previous_commission.Party, PyInt(0))

\* A second row was dropped, for its court or for its dates, after a row of
\* another judge and another party, and previous_commission is the second row.
C2_Witness ==
    /\ Processed
    /\ nread = 2
    /\ ~is_written(commission)
    /\ Len(out) = 2
    /\ out[1].Judge = "O'Hara< Al"
    /\ PyEq(out[1].Party, PyInt(0))
    /\ previous_commission.Judge = "Smith< Jane"
    /\ PyEq(previous_commission.Party, PyInt(1))

\* C4: every pass appends 0, 1 or 2 rows to the output and changes none of
\* the rows written before; it appends none when the court is not in
\* court_map or when both dates are empty; the first appended row is the
\* row's own record and the second its alias.
C4_OrderedExpansion ==
    [][/\ Len(out') >= Len(out)
       /\ SubSeq(out', 1, Len(out)) = out
       /\ Len(appended) \in 0..2
       /\ Pass =>
            /\ (row'["Court Name"] \notin DOMAIN court_map) => appended = <<>>
            /\ (/\ row'["Commission Date"] = ""
                /\ row'["Recess Appointment Date"] = "") => appended = <<>>
            /\ Len(appended) >= 1 =>
                   appended[1].Judge = replace_comma(row'["Judge Name"])
            /\ Len(appended) = 2 =>
                   appended[2].Judge # replace_comma(row'["Judge Name"])
       /\ ~Pass => appended = <<>>]_vars

\* Two rows were read: the first gave its record and its alias, the second,
\* with a recess date only, one record.
C4_Witness ==
    /\ Processed
    /\ nread = 2
    /\ Len(out) = 3
    /\ out[1].Judge = "O'Hara< Al"
    /\ out[2].Judge = "Hara< Al"
    /\ out[3].Judge = "Smith< Jane"
    /\ row["Commission Date"] = ""

\* C10: with every column present the run never fails, the first row
\* included, whatever its judge name and its party.
C10_NoFailure == header = Columns => pc # "failed"

---------------------------------------------------------------------------
(* SpecParty: the party labels of the FJC table *)

PartyLabels ==
    {"", "None (assignment)", "Democratic", "Republican", "Whig",
     "Jeffersonian Republican"}

NextParty ==
    \/ \E j \in {"Smith, Jane", "Jones, Al"}, p \in PartyLabels :
           LoopBody(InputRow(header, j, "s1", Second, p, "1995-03-01", "", ""))
    \/ Finish

SpecParty == Init /\ [][NextParty]_vars

\* C9: a row whose party is neither empty nor None... has Party 1 when the
\* party is exactly Democratic, 0 when it is exactly Republican and None for
\* any other label, whatever the previous commission; every row written has
\* a Party of 1, 0 or None.
C9_PartyTernary ==
    /\ Processed /\ ~party_unknown(row["Party of Appointing President"]) =>
           PyEq(commission.Party,
                CASE row["Party of Appointing President"] = "Democratic" -> PyInt(1)
                  [] row["Party of Appointing President"] = "Republican" -> PyInt(0)
                  [] OTHER -> None)
    /\ \A i \in 1..Len(out) :
           \/ PyEq(out[i].Party, PyInt(1))
           \/ PyEq(out[i].Party, PyInt(0))
           \/ PyEq(out[i].Party, None)

\* A label that only ends in Republican, on the second row of a judge whose
\* first row was Democratic, resolved to None.
C9_Witness ==
    /\ Processed
    /\ nread = 2
    /\ row["Party of Appointing President"] = "Jeffersonian Republican"
    /\ Len(out) = 2
    /\ out[1].Judge = out[2].Judge
    /\ PyEq(out[1].Party, PyInt(1))
    /\ PyEq(out[2].Party, None)

---------------------------------------------------------------------------
(* SpecNames: the judges with an exception, a prefix or neither *)

ExceptionNames ==
    {"Smith, Jane", "Vance, Cy", "Van Dyke, Al", "O'Hara, Al", "Van O'Neil, Bo",
     "Porfilio, John Carbone", "Porfilio,John Carbone", "King, Carolyn Dineen"}

NextNames ==
    \/ \E j \in ExceptionNames, c \in CourtNames, td \in {"", "2001-02-03"} :
           LoopBody(InputRow(header, j, "s1", c, "Democratic", "1995-03-01", "", td))
    \/ Finish

SpecNames == InitYears /\ [][NextNames]_vars

\* The row read by the step has a court of court_map and a start date.
Writable ==
    /\ row'["Court Name"] \in DOMAIN court_map
    /\ (row'["Commission Date"] # "" \/ row'["Recess Appointment Date"] # "")

\* The start and end years the row read by the step resolves to.
resolved_start ==
    get_year(IF row'["Commission Date"] = "" THEN row'["Recess Appointment Date"]
             ELSE row'["Commission Date"])
resolved_end ==
    IF get_year(row'["Termination Date"]) = None THEN PyInt(this_year)
    ELSE get_year(row'["Termination Date"])

\* C3 as stated: the identifier Porfilio<John Carbone gives two rows, under
\* Porfilio<John Carbone from 1996 and under Moore<John until 1996.
C3_AsStated ==
    [][(/\ Pass
        /\ Writable
        /\ replace_comma(row'["Judge Name"]) = "Porfilio<John Carbone")
       => /\ Len(appended) = 2
          /\ appended[1].Judge = "Porfilio<John Carbone"
          /\ PyEq(appended[1].StartYear, PyInt(1996))
          /\ appended[2].Judge = "Moore<John"
          /\ PyEq(appended[2].EndYear, PyInt(1996))]_vars

\* C3: the identifier "Porfilio< John Carbone" (the name "Porfilio, John
\* Carbone") gives two rows: the first under that identifier with StartYear
\* 1996 and the row's EndYear, the second under "Moore< John" with EndYear
\* 1996 and the row's StartYear; Circuit and Party are the same in both.
C3_PorfilioMoore ==
    [][(/\ Pass
        /\ Writable
        /\ replace_comma(row'["Judge Name"]) = "Porfilio< John Carbone")
       => /\ Len(appended) = 2
          /\ appended[1].Judge = "Porfilio< John Carbone"
          /\ PyEq(appended[1].StartYear, PyInt(1996))
          /\ PyEq(appended[1].EndYear, resolved_end)
          /\ appended[2].Judge = "Moore< John"
          /\ PyEq(appended[2].EndYear, PyInt(1996))
          /\ PyEq(appended[2].StartYear, resolved_start)
          /\ appended[1].Circuit = court_map[row'["Court Name"]]
          /\ appended[2].Circuit = appended[1].Circuit
          /\ PyEq(appended[2].Party, appended[1].Party)]_vars

\* The two rows of Porfilio, commissioned in 1995 and terminated in 2001.
C3_Witness ==
    /\ Processed
    /\ Len(out) = 2
    /\ out[1].Judge = "Porfilio< John Carbone"
    /\ PyEq(out[1].StartYear, PyInt(1996))
    /\ PyEq(out[1].EndYear, PyInt(2001))
    /\ out[2].Judge = "Moore< John"
    /\ PyEq(out[2].StartYear, PyInt(1995))
    /\ PyEq(out[2].EndYear, PyInt(1996))

\* The row of the scenario: Smith, Jane of the Second Circuit.
IsSmithRow ==
    /\ row["Judge Name"] = "Smith, Jane"
    /\ row["Court Name"] = "U.S. Court of Appeals for the Second Circuit"
    /\ row["Party of Appointing President"] = "Democratic"
    /\ row["Commission Date"] = "1995-03-01"
    /\ row["Termination Date"] = ""

\* C6 as stated: the row of Smith, Jane, read as the only row, gives the one
\* row Smith<Jane, 2, 1, 1995, current year.
C6_AsStated ==
    (Processed /\ nread = 1 /\ IsSmithRow) =>
        /\ Len(out) = 1
        /\ out[1].Judge = "Smith<Jane"
        /\ out[1].Circuit = "2"
        /\ PyEq(out[1].Party, PyInt(1))
        /\ PyEq(out[1].StartYear, PyInt(1995))
        /\ PyEq(out[1].EndYear, PyInt(this_year))

\* C6: the row of Smith, Jane, read as the only row, gives the one row
\* "Smith< Jane", 2, 1, 1995, current year: the comma becomes < and the space
\* after it stays.
C6_SmithRow ==
    (Processed /\ nread = 1 /\ IsSmithRow) =>
        /\ Len(out) = 1
        /\ out[1].Judge = "Smith< Jane"
        /\ out[1].Circuit = "2"
        /\ PyEq(out[1].Party, PyInt(1))
        /\ PyEq(out[1].StartYear, PyInt(1995))
        /\ PyEq(out[1].EndYear, PyInt(this_year))

\* The row of Smith, Jane was read as the only row and the run ended.
C6_Witness ==
    /\ pc = "done"
    /\ nread = 1
    /\ IsSmithRow
    /\ Len(out) = 1
    /\ out[1].Judge = "Smith< Jane"

SpecialCases == {"Porfilio< John Carbone", "King< Carolyn Dineen"}

\* C7: a writable row whose identifier begins with "Van " or "O'" gives two
\* rows, the row itself and the same row under the identifier without that
\* prefix; a writable row with no prefix and no exception gives one row.
C7_PrefixAlias ==
    [][(/\ Pass
        /\ Writable
        /\ replace_comma(row'["Judge Name"]) \notin SpecialCases)
       => LET J == replace_comma(row'["Judge Name"])
              prefix == IF StartsWith(J, "Van ") THEN "Van "
                        ELSE IF StartsWith(J, "O'") THEN "O'" ELSE ""
          IN  /\ Len(appended) = (IF prefix = "" THEN 1 ELSE 2)
              /\ appended[1].Judge = J
              /\ appended[1].Circuit = court_map[row'["Court Name"]]
              /\ PyEq(appended[1].Party, PyInt(1))
              /\ PyEq(appended[1].StartYear, resolved_start)
              /\ PyEq(appended[1].EndYear, resolved_end)
              /\ prefix # "" =>
                     /\ prefix \o appended[2].Judge = J
                     /\ appended[2].Circuit = appended[1].Circuit
                     /\ PyEq(appended[2].Party, appended[1].Party)
                     /\ PyEq(appended[2].StartYear, appended[1].StartYear)
                     /\ PyEq(appended[2].EndYear, appended[1].EndYear)]_vars

\* Van O'Neil gave two rows, the alias without "Van " only, and Vance, who
\* has no prefix, one.
C7_Witness ==
    /\ Processed
    /\ Len(out) = 3
    /\ out[1].Judge = "Van O'Neil< Bo"
    /\ out[2].Judge = "O'Neil< Bo"
    /\ out[3].Judge = "Vance< Cy"

---------------------------------------------------------------------------
(* SpecDates: dates that strptime reads and dates that it does not *)

\* Texts that are not a date of the form YYYY-MM-DD.
UnparseableDates == {"1995", "03/01/1995", "2001-02-30"}

NextDates ==
    \/ \E cd \in {"", "1995-03-01", "1995", "03/01/1995"},
          rd \in {"", "1994-12-31", "1995"},
          td \in {"", "2001-02-03", "03/01/1995", "2001-02-30"} :
           LoopBody(InputRow(header, "Smith, Jane", "s1", Second, "Democratic", cd, rd, td))
    \/ Finish

SpecDates == InitYears /\ [][NextDates]_vars

\* The text the start year of the row just read is taken from.
row_start ==
    IF row["Commission Date"] = "" THEN row["Recess Appointment Date"]
    ELSE row["Commission Date"]

\* C5 as stated: a date that cannot be parsed gives a null year and no
\* failure: StartYear is None for such a start date and EndYear is None for
\* such a Termination Date that is not empty.
C5_AsStated ==
    /\ pc # "failed"
    /\ (Processed /\ row_start \in UnparseableDates) =>
           /\ PyEq(commission.StartYear, None)
           /\ PyEq(out[Len(out)].StartYear, None)
    /\ (Processed /\ row_start # "" /\ row["Termination Date"] \in UnparseableDates) =>
           /\ PyEq(commission.EndYear, None)
           /\ PyEq(out[Len(out)].EndYear, None)

\* C5: a date that cannot be parsed does not fail the run; such a start date
\* gives StartYear None, and such a Termination Date gives EndYear the
\* current year, as an empty one does.
C5_UnparseableDates ==
    /\ pc # "failed"
    /\ (Processed /\ row_start \in UnparseableDates) =>
           /\ PyEq(commission.StartYear, None)
           /\ PyEq(out[Len(out)].StartYear, None)
    /\ (Processed /\ row_start # ""
          /\ row["Termination Date"] \in UnparseableDates \cup {""}) =>
           /\ PyEq(commission.EndYear, PyInt(this_year))
           /\ PyEq(out[Len(out)].EndYear, PyInt(this_year))

\* A row with a year alone as its recess date and a day that does not exist
\* as its termination date was written after a row with both dates good.
C5_Witness ==
    /\ Processed
    /\ Len(out) = 2
    /\ PyEq(out[1].StartYear, PyInt(1995))
    /\ PyEq(out[1].EndYear, PyInt(2001))
    /\ row["Commission Date"] = ""
    /\ row["Recess Appointment Date"] = "1995"
    /\ row["Termination Date"] = "2001-02-30"
    /\ PyEq(out[2].StartYear, None)
    /\ PyEq(out[2].EndYear, PyInt(this_year))

---------------------------------------------------------------------------
(* SpecColumns: inputs with a column missing *)

\* The input has every column, or every column but one.
Headers == {Columns} \cup {Columns \ {k} : k \in Columns}

InitColumns == InitWith(Headers, Years)

NextColumns ==
    \/ \E c \in CourtNames, cd \in CommissionDates, rd \in RecessDates,
          td \in {"", "2001-02-03"} :
           LoopBody(InputRow(header, "Smith, Jane", "s1", c, "Democratic", cd, rd, td))
    \/ Finish

SpecColumns == InitColumns /\ [][NextColumns]_vars

\* The columns read with row[...] before anything else.
KeyColumns ==
    {"Judge Name", "Seat ID", "Court Name", "Party of Appointing President"}

\* The start date text of the row just read, a missing column read as empty.
row_start_or_empty ==
    LET cd == IF "Commission Date" \in DOMAIN row THEN row["Commission Date"] ELSE ""
        rd == IF "Recess Appointment Date" \in DOMAIN row
              THEN row["Recess Appointment Date"] ELSE ""
    IN  IF cd = "" THEN rd ELSE cd

\* C8 as stated: with any of the seven columns missing, the first row fails
\* the run and no row is written.
C8_AsStated ==
    (header # Columns /\ nread >= 1) => (pc = "failed" /\ nread = 1 /\ out = <<>>)

\* C8: with Judge Name, Seat ID, Court Name or Party of Appointing President
\* missing, the first row fails the run and no row is written; with
\* Termination Date missing, the run fails at the first row that has a start
\* date and no row is ever written; a missing Commission Date or Recess
\* Appointment Date is read as an empty one and fails nothing: the rows are
\* written from the other date.
C8_MissingColumn ==
    /\ (~(KeyColumns \subseteq header) /\ nread >= 1) =>
           (pc = "failed" /\ nread = 1 /\ out = <<>>)
    /\ "Termination Date" \notin header =>
           /\ out = <<>>
           /\ (nread >= 1 /\ row_start_or_empty # "") => pc = "failed"
           /\ (nread >= 1 /\ row_start_or_empty = "") => pc # "failed"
    /\ (header = Columns \ {"Commission Date"} \/ header = Columns \ {"Recess Appointment Date"}) =>
           /\ pc # "failed"
           /\ (Processed /\ row["Court Name"] \in DOMAIN court_map
                 /\ row_start_or_empty # "") =>
                  /\ out # <<>>
                  /\ out[Len(out)].Judge = "Smith< Jane"
                  /\ PyEq(out[Len(out)].StartYear, get_year(row_start_or_empty))

\* Without the Commission Date column a row was written from its recess
\* date, after a row that had none.
C8_Witness ==
    /\ header = Columns \ {"Commission Date"}
    /\ Processed
    /\ nread = 2
    /\ Len(out) = 1
    /\ PyEq(out[1].StartYear, PyInt(1994))

====
